---- MODULE Spec2Model ----
(***************************************************************************)
(* PumpSwapBundler (src/src/bundler.ts): a capacity-bounded buffer of      *)
(* transaction objects.  sendBundle enriches every buffered transaction    *)
(* with two compute-budget instructions, awaits the latest blockhash,      *)
(* awaits the relay call and then empties the buffer.                      *)
(*                                                                         *)
(* Transactions are heap objects: the buffer holds references, and         *)
(* addComputeBudgetInstructions replaces the message of the object it is   *)
(* given, so the same object buffered twice is enriched twice.             *)
(*                                                                         *)
(* sendBundle is an async function.  Its body runs synchronously up to the *)
(* first await; any other method of the bundler may run while it is        *)
(* suspended at either await, a further sendBundle included.               *)
(***************************************************************************)
EXTENDS Integers, Sequences, FiniteSets, TLC

(* ------------------------------ bounds -------------------------------- *)

\* Largest maxTransactions the constructor is given (1..MaxCapacity).
MaxCapacity == 2

\* Number of distinct transaction objects the caller holds.
NumTx == 2

\* sendBundle invocations that may be suspended at the same time.
MaxInFlight == 2

\* Calls of addComputeBudgetInstructions in one behaviour.
MaxPasses == 2

(* ----------------------------- values --------------------------------- *)

TxRefs == 1..NumTx

\* this.transactions[0] of an empty array.
Undefined == 0

\* Block hashes connection.getLatestBlockhash() may resolve to.
LatestBlockhashes == {"latest"}

\* Identifiers the relay may resolve to.
Uuids == {"uuid-a"}

\* The configuration of main(); tipAmount is in units of 0.0001 SOL.
BundleConfig(max) ==
    [maxTransactions |-> max, tipAmount |-> 1,
     computeUnits |-> 300000, computeUnitPrice |-> 696969]

UserIx(name, t) == [programId |-> "PumpSwap", kind |-> name, value |-> t]

\* The instructions the caller compiled into transaction object t.
CallerInstructions(t) ==
    CASE t % 3 = 1 -> << UserIx("buy", t), UserIx("sell", t) >>
      [] t % 3 = 2 -> << UserIx("sell", t) >>
      [] OTHER     -> << >>

CallerPayer(t) == IF t % 2 = 1 THEN "walletA" ELSE "walletB"

CallerBlockhash(t) == IF t % 2 = 1 THEN "recentA" ELSE "recentB"

RECURSIVE Dedup(_, _)
Dedup(keys, seen) ==
    IF keys = << >> THEN << >>
    ELSE IF Head(keys) \in seen THEN Dedup(Tail(keys), seen)
    ELSE << Head(keys) >> \o Dedup(Tail(keys), seen \cup {Head(keys)})

\* new TransactionMessage({payerKey, recentBlockhash, instructions})
\*   .compileToV0Message(): the payer is the first static account key, the
\* program ids follow once each, the instructions keep their order.
CompileToV0Message(payerKey, recentBlockhash, instructions) ==
    [staticAccountKeys |->
        << payerKey >> \o
        Dedup([i \in 1..Len(instructions) |-> instructions[i].programId],
              {payerKey}),
     recentBlockhash |-> recentBlockhash,
     compiledInstructions |-> instructions]

\* The message of transaction object t as the caller built it.
CallerMessage(t) ==
    CompileToV0Message(CallerPayer(t), CallerBlockhash(t), CallerInstructions(t))

(* ----------------------------- state ---------------------------------- *)

VARIABLES
    config,            \* this.config
    transactions,      \* this.transactions: sequence of object references
    heap,              \* transaction object -> its message
    awaitingBlockhash, \* sendBundle calls suspended at getLatestBlockhash
    awaitingRelay,     \* relay call arguments -> calls suspended on them
    ev,                \* the step last taken and what it gave the caller
    atCall,            \* history: accumulator as the lone call in flight found it
    appended,          \* history: addTransaction arguments since last empty
    invokedAt,         \* history: buffer length the lone call in flight found
    delivered          \* history: handed to a relay call that returned, and
                       \* not appended since

vars == << config, transactions, heap, awaitingBlockhash, awaitingRelay,
           ev, atCall, appended, invokedAt, delivered >>

RelayArgs == [isSell : BOOLEAN, blockhash : LatestBlockhashes,
              tx : TxRefs \cup {Undefined}]

RECURSIVE SumOver(_, _)
SumOver(f, S) ==
    IF S = {} THEN 0
    ELSE LET x == CHOOSE y \in S : TRUE IN f[x] + SumOver(f, S \ {x})

InFlight == awaitingBlockhash + SumOver(awaitingRelay, RelayArgs)

\* op: the method or resumption that ran; outcome: returned, suspended or
\* the error raised; tx: the transaction argument; ret: the number returned;
\* uuid: the string returned; had: the buffer length clear() found; hash:
\* the blockhash getLatestBlockhash resolved to.
Event(op, outcome, tx, ret, uuid) ==
    [op |-> op, outcome |-> outcome, tx |-> tx, ret |-> ret, uuid |-> uuid,
     had |-> 0, hash |-> ""]

\* invokedAt when no lone call is being followed.
NotFollowed == 0 - 1

NoSnapshot ==
    [valid |-> FALSE, transactions |-> << >>,
     heap |-> [t \in TxRefs |-> CallerMessage(t)]]

(* --------------------------- operations -------------------------------- *)

\* getSize(): this.transactions.length
Size == Len(transactions)

\* The capacity test of addTransaction.
CapacityReachedOffByOne(len, max) == len > max
CapacityReached(len, max) == len >= max

\* this.transactions.push(transaction)
PushFront(txs, t) == << t >> \o txs
Push(txs, t) == Append(txs, t)

\* The emptiness test of sendBundle.
NeverEmpty(len) == FALSE
IsEmpty(len) == len = 0

\* this.transactions = [] of clear().
DropFirst(txs) == IF txs = << >> THEN << >> ELSE Tail(txs)
Cleared(txs) == << >>

\* this.transactions = [] at the end of sendBundle.
DropSent(txs) == IF txs = << >> THEN << >> ELSE Tail(txs)
AfterSend(txs) == << >>

\* The two instructions of computeBudgetIx.
ComputeBudgetIx(cfg) ==
    << [programId |-> "ComputeBudget", kind |-> "SetComputeUnitLimit",
        value |-> cfg.computeUnits],
       [programId |-> "ComputeBudget", kind |-> "SetComputeUnitPrice",
        value |-> cfg.computeUnitPrice] >>

\* addComputeBudgetInstructions(transaction): the new message of the object.
AddComputeBudgetInstructions(cfg, msg) ==
    CompileToV0Message(msg.staticAccountKeys[1],
                       msg.recentBlockhash,
                       ComputeBudgetIx(cfg) \o msg.compiledInstructions)

\* this.transactions.forEach(tx => this.addComputeBudgetInstructions(tx))
RECURSIVE ForEachEnrich(_, _, _)
ForEachEnrich(cfg, txs, h) ==
    IF txs = << >> THEN h
    ELSE ForEachEnrich(cfg, Tail(txs),
            [h EXCEPT ![Head(txs)] = AddComputeBudgetInstructions(cfg, @)])

\* this.transactions[0]
First(txs) == IF txs = << >> THEN Undefined ELSE txs[1]

\* The arguments of the relay call: isSell, the blockhash just fetched and
\* the first buffered transaction (poolId and signer are passed through).
RelayCallArgsSell(h, txs) == [isSell |-> TRUE, blockhash |-> h, tx |-> First(txs)]
RelayCallArgs(h, txs) == [isSell |-> FALSE, blockhash |-> h, tx |-> First(txs)]

\* Calls of addComputeBudgetInstructions the objects of h have been through.
RECURSIVE PassesDone(_, _)
PassesDone(h, S) ==
    IF S = {} THEN 0
    ELSE LET t == CHOOSE x \in S : TRUE
         IN (Len(h[t].compiledInstructions) - Len(CallerInstructions(t))) \div 2
            + PassesDone(h, S \ {t})

\* The calls sendBundle would add stay within MaxPasses.
WithinPasses == PassesDone(heap, TxRefs) + Len(transactions) <= MaxPasses

(* ----------------------------- actions --------------------------------- *)

Init ==
    /\ config \in {BundleConfig(m) : m \in 1..MaxCapacity}
    /\ transactions = << >>
    /\ heap = [t \in TxRefs |-> CallerMessage(t)]
    /\ awaitingBlockhash = 0
    /\ awaitingRelay = [a \in RelayArgs |-> 0]
    /\ ev = Event("constructor", "returned", Undefined, 0, "")
    /\ atCall = NoSnapshot
    /\ appended = << >>
    /\ invokedAt = NotFollowed
    /\ delivered = {}

AddTransaction(t) ==
    IF CapacityReached(Len(transactions), config.maxTransactions)
    THEN /\ ev' = Event("addTransaction", "CapacityExceeded", t, 0, "")
         /\ appended' = IF Len(appended) < config.maxTransactions
                        THEN Append(appended, t) ELSE appended
         /\ UNCHANGED << config, transactions, heap, awaitingBlockhash,
                         awaitingRelay, atCall, invokedAt, delivered >>
    ELSE /\ transactions' = Push(transactions, t)
         /\ delivered' = delivered \ {t}
         /\ ev' = Event("addTransaction", "returned", t, 0, "")
         /\ atCall' = NoSnapshot
         /\ appended' = IF Len(appended) < config.maxTransactions
                        THEN Append(appended, t) ELSE appended
         /\ UNCHANGED << config, heap, awaitingBlockhash, awaitingRelay,
                         invokedAt >>

\* sendBundle up to its first await.  The Bundle built on line 74 is a local
\* that is never read, so it has no part in the state.
SendBundle ==
    IF IsEmpty(Len(transactions))
    THEN /\ ev' = Event("sendBundle", "EmptyBundle", Undefined, 0, "")
         /\ UNCHANGED << config, transactions, heap, awaitingBlockhash,
                         awaitingRelay, atCall, appended, invokedAt,
                         delivered >>
    ELSE /\ InFlight < MaxInFlight
         /\ WithinPasses
         /\ heap' = ForEachEnrich(config, transactions, heap)
         /\ awaitingBlockhash' = awaitingBlockhash + 1
         /\ ev' = Event("sendBundle", "suspended", Undefined, 0, "")
         /\ atCall' = IF InFlight = 0
                      THEN [valid |-> TRUE, transactions |-> transactions,
                            heap |-> heap]
                      ELSE NoSnapshot
         /\ invokedAt' = IF InFlight = 0 THEN Len(transactions)
                         ELSE NotFollowed
         /\ UNCHANGED << config, transactions, awaitingRelay, appended,
                         delivered >>

\* getLatestBlockhash resolved: sendBundle resumes and calls the relay.
BlockhashResolved(h) ==
    /\ awaitingBlockhash > 0
    /\ LET args == RelayCallArgs(h, transactions)
       IN /\ awaitingRelay' = [awaitingRelay EXCEPT ![args] = @ + 1]
          /\ ev' = [Event("relayCall", "suspended", args.tx, 0, "")
                      EXCEPT !.hash = h]
    /\ awaitingBlockhash' = awaitingBlockhash - 1
    /\ UNCHANGED << config, transactions, heap, atCall, appended, invokedAt,
                    delivered >>

\* getLatestBlockhash rejected: sendBundle rejects with that error.
BlockhashRejected ==
    /\ awaitingBlockhash > 0
    /\ awaitingBlockhash' = awaitingBlockhash - 1
    /\ ev' = Event("sendBundleDone", "blockhashError", Undefined, 0, "")
    /\ invokedAt' = NotFollowed
    /\ UNCHANGED << config, transactions, heap, awaitingRelay, atCall,
                    appended, delivered >>

\* The relay resolved: sendBundle empties the buffer and returns the uuid.
RelayResolved(a, uuid) ==
    /\ awaitingRelay[a] > 0
    /\ awaitingRelay' = [awaitingRelay EXCEPT ![a] = @ - 1]
    /\ transactions' = AfterSend(transactions)
    /\ ev' = Event("sendBundleDone", "returned", a.tx, 0, uuid)
    /\ appended' = << >>
    /\ invokedAt' = NotFollowed
    /\ delivered' = delivered \cup ({a.tx} \ {Undefined})
    /\ UNCHANGED << config, heap, awaitingBlockhash, atCall >>

\* The relay rejected: sendBundle rejects with that error.
RelayRejected(a) ==
    /\ awaitingRelay[a] > 0
    /\ awaitingRelay' = [awaitingRelay EXCEPT ![a] = @ - 1]
    /\ ev' = Event("sendBundleDone", "relayError", Undefined, 0, "")
    /\ invokedAt' = NotFollowed
    /\ UNCHANGED << config, transactions, heap, awaitingBlockhash, atCall,
                    appended, delivered >>

\* getSize() written as a draining read.
GetSizeDraining ==
    /\ ev' = Event("getSize", "returned", Undefined, Size, "")
    /\ transactions' = << >>
    /\ UNCHANGED << config, heap, awaitingBlockhash, awaitingRelay, atCall,
                    appended, invokedAt, delivered >>

GetSize ==
    /\ ev' = Event("getSize", "returned", Undefined, Size, "")
    /\ UNCHANGED << config, transactions, heap, awaitingBlockhash,
                    awaitingRelay, atCall, appended, invokedAt, delivered >>

Clear ==
    /\ transactions' = Cleared(transactions)
    /\ ev' = [Event("clear", "returned", Undefined, 0, "")
                EXCEPT !.had = Len(transactions)]
    /\ atCall' = NoSnapshot
    /\ appended' = << >>
    /\ invokedAt' = NotFollowed
    /\ UNCHANGED << config, heap, awaitingBlockhash, awaitingRelay,
                    delivered >>

Next ==
    \/ \E t \in TxRefs : AddTransaction(t)
    \/ SendBundle
    \/ \E h \in LatestBlockhashes : BlockhashResolved(h)
    \/ BlockhashRejected
    \/ \E a \in RelayArgs, u \in Uuids : RelayResolved(a, u)
    \/ \E a \in RelayArgs : RelayRejected(a)
    \/ GetSize
    \/ Clear

Spec == Init /\ [][Next]_vars

(* ------------------------------ claims --------------------------------- *)

SubmitFailed ==
    /\ ev.op = "sendBundleDone"
    /\ ev.outcome \in {"blockhashError", "relayError"}

SubmitReturned == ev.op = "sendBundleDone" /\ ev.outcome = "returned"

\* C1: whatever addTransaction, sendBundle (succeeding or failing), getSize
\* and clear have been called, the buffer never holds more than
\* maxTransactions transactions.
C1_BufferWithinCapacity == Len(transactions) <= config.maxTransactions

\* The buffer was filled to a capacity above one while a sendBundle is suspended.
C1_FilledDuringSubmit ==
    /\ config.maxTransactions = MaxCapacity
    /\ Len(transactions) = config.maxTransactions
    /\ ev.op = "addTransaction" /\ ev.outcome = "returned"
    /\ InFlight > 0

\* C2: the relay call is handed the whole buffer, in insertion order.  The
\* list handed over is compared with the buffer of a call that ran alone,
\* with nothing appended or cleared since it was invoked.
C2_RelayGetsWholeBuffer ==
    (ev.op = "relayCall" /\ atCall.valid)
        => /\ transactions = atCall.transactions
           /\ (IF ev.tx = Undefined THEN << >> ELSE << ev.tx >>) = transactions

\* C3: a sendBundle that fails at the blockhash fetch or at the relay leaves
\* the accumulator as the call found it: the same buffer, and every buffered
\* transaction with the message it had.
C3_FailedSubmitChangesNothing ==
    (SubmitFailed /\ atCall.valid)
        => /\ transactions = atCall.transactions
           /\ \A i \in 1..Len(transactions) :
                 heap[transactions[i]] = atCall.heap[transactions[i]]

\* C4: addTransaction on a full buffer raises CapacityExceeded and leaves the
\* buffer and its transactions as they were.
C4_AppendAtCapacityRejected ==
    [][(ev'.op = "addTransaction" /\ Size = config.maxTransactions)
          => /\ ev'.outcome = "CapacityExceeded"
             /\ transactions' = transactions
             /\ heap' = heap]_vars

\* An append was rejected on a full buffer.
C4_RejectedWhenFull ==
    /\ ev.op = "addTransaction" /\ ev.outcome = "CapacityExceeded"
    /\ Size = config.maxTransactions

\* C5: sendBundle on an empty buffer raises EmptyBundle and does nothing
\* else: no transaction is enriched, neither the blockhash nor the relay is
\* asked, the buffer stays empty.
C5_SubmitOnEmptyRejected ==
    [][(ev'.op = "sendBundle" /\ Size = 0)
          => /\ ev'.outcome = "EmptyBundle"
             /\ transactions' = << >>
             /\ UNCHANGED << heap, awaitingBlockhash, awaitingRelay >>]_vars

\* sendBundle was rejected on a buffer emptied after earlier use.
C5_RejectedWhenEmpty ==
    /\ ev.op = "sendBundle" /\ ev.outcome = "EmptyBundle"
    /\ Size = 0
    /\ \E t \in TxRefs : heap[t] # CallerMessage(t)

\* C6: when sendBundle returns, the buffer is empty, so it is below
\* capacity and the addTransaction that follows succeeds.
C6_EmptyAfterSubmit ==
    /\ [](SubmitReturned
            => /\ Size = 0
               /\ ~CapacityReached(Size, config.maxTransactions))
    /\ [][(SubmitReturned /\ ev'.op = "addTransaction")
            => /\ ev'.outcome = "returned"
               /\ transactions' = << ev'.tx >>]_vars

\* A sendBundle invoked on a full buffer of more than one returned.
C6_ReturnedFromFull ==
    /\ SubmitReturned
    /\ atCall.valid
    /\ Len(atCall.transactions) = config.maxTransactions
    /\ config.maxTransactions > 1

\* C7: from an empty buffer, the first maxTransactions calls of
\* addTransaction all succeed, getSize returns their number, and the buffer
\* holds their arguments in call order.
C7_AppendsInOrder ==
    /\ transactions = appended
    /\ Size = Len(appended)
    /\ (ev.op = "getSize" => ev.ret = Len(appended))

\* getSize after two different transactions filled the buffer.
C7_TwoAppended ==
    /\ ev.op = "getSize"
    /\ Len(appended) = 2
    /\ appended[1] # appended[2]
    /\ ev.ret = 2

\* C8: clear leaves an empty buffer whatever it found, and clearing a
\* cleared buffer changes nothing.
C8_ClearEmptiesIdempotent ==
    /\ (ev.op = "clear" => Size = 0)
    /\ Cleared(Cleared(transactions)) = Cleared(transactions)
    /\ (ev.op = "clear" => Cleared(transactions) = transactions)

\* clear ran on a full buffer of more than one.
C8_ClearedFull ==
    /\ ev.op = "clear"
    /\ ev.had = config.maxTransactions
    /\ ev.had > 1

\* C9: sendBundle gives every buffered transaction exactly the two
\* compute-budget instructions, limit then price, in front of the
\* instructions it had, and keeps its fee payer and recent blockhash.
C9_EachEnrichedOnce ==
    [][(ev'.op = "sendBundle" /\ ev'.outcome = "suspended")
          => \A i \in 1..Len(transactions) :
                LET t == transactions[i] IN
                /\ heap'[t].compiledInstructions =
                       ComputeBudgetIx(config) \o heap[t].compiledInstructions
                /\ heap'[t].staticAccountKeys[1] = heap[t].staticAccountKeys[1]
                /\ heap'[t].recentBlockhash = heap[t].recentBlockhash]_vars

CarriesComputeBudget(msg) ==
    \E i, j \in 1..Len(msg.compiledInstructions) :
        /\ msg.compiledInstructions[i] = ComputeBudgetIx(config)[1]
        /\ msg.compiledInstructions[j] = ComputeBudgetIx(config)[2]

\* C10: as soon as addTransaction returns, the transaction it appended
\* carries the compute-unit-limit and compute-unit-price instructions.
C10_AppendAddsComputeBudget ==
    (ev.op = "addTransaction" /\ ev.outcome = "returned")
        => CarriesComputeBudget(heap[ev.tx])

\* The step ended exactly one pending relay call and started none.
OneRelayCallEnded ==
    \E a \in RelayArgs :
        /\ awaitingRelay[a] > 0
        /\ awaitingRelay' = [awaitingRelay EXCEPT ![a] = @ - 1]

\* C11: a sendBundle on a non-empty buffer enriches every buffered
\* transaction, then asks for the blockhash once; its resumption calls the
\* relay once, with isSell false and the blockhash just fetched, and only
\* when the fetch succeeded; no step fetches or calls again after a failure;
\* the buffer changes only when the relay has returned, and the caller gets
\* the identifier the relay returned.
C11_SubmitStepsInOrder ==
    [][/\ (ev'.op = "sendBundle" /\ ev'.outcome = "suspended")
            => /\ \A i \in 1..Len(transactions) :
                     /\ Len(heap'[transactions[i]].compiledInstructions) >= 2
                     /\ SubSeq(heap'[transactions[i]].compiledInstructions, 1, 2)
                            = ComputeBudgetIx(config)
               /\ awaitingBlockhash' = awaitingBlockhash + 1
               /\ awaitingRelay' = awaitingRelay
               /\ transactions' = transactions
       /\ (ev'.op = "relayCall")
            => /\ awaitingBlockhash' = awaitingBlockhash - 1
               /\ awaitingRelay' =
                      [awaitingRelay EXCEPT
                          ![[isSell |-> FALSE, blockhash |-> ev'.hash,
                             tx |-> First(transactions)]] = @ + 1]
               /\ ev'.hash \in LatestBlockhashes
               /\ heap' = heap
               /\ transactions' = transactions
       /\ (ev'.op = "sendBundleDone" /\ ev'.outcome = "blockhashError")
            => /\ awaitingBlockhash' = awaitingBlockhash - 1
               /\ awaitingRelay' = awaitingRelay
               /\ heap' = heap
               /\ transactions' = transactions
       /\ (ev'.op = "sendBundleDone" /\ ev'.outcome = "relayError")
            => /\ awaitingBlockhash' = awaitingBlockhash
               /\ OneRelayCallEnded
               /\ heap' = heap
               /\ transactions' = transactions
       /\ (ev'.op = "sendBundleDone" /\ ev'.outcome = "returned")
            => /\ awaitingBlockhash' = awaitingBlockhash
               /\ OneRelayCallEnded
               /\ heap' = heap
               /\ transactions' = << >>
               /\ ev'.uuid \in Uuids]_vars

\* A lone sendBundle went through both awaits and returned the relay's
\* identifier for the transaction it handed over.
C11_RanToReturn ==
    /\ SubmitReturned
    /\ ev.uuid \in Uuids
    /\ ev.tx # Undefined
    /\ atCall.valid
    /\ InFlight = 0

Pairs(msg) ==
    Cardinality({i \in 1..Len(msg.compiledInstructions) :
                    msg.compiledInstructions[i].kind = "SetComputeUnitLimit"})

\* C12: when a sendBundle that ran alone returns, a transaction appended
\* while it was suspended and not enriched by it is still in the buffer:
\* only the transactions the call found when it was invoked are removed.
C12_LateAppendsKept ==
    [][(ev'.op = "sendBundleDone" /\ ev'.outcome = "returned"
          /\ invokedAt # NotFollowed)
          => \A j \in (invokedAt + 1)..Len(transactions) :
                Pairs(heap[transactions[j]]) = 0
                    => \E k \in 1..Len(transactions') :
                          transactions'[k] = transactions[j]]_vars

\* C13: no transaction ever carries more than one pair of prepended
\* compute-budget instructions.
C13_EnrichedAtMostOnce == \A t \in TxRefs : Pairs(heap[t]) <= 1

\* C14: a relay call that returns was not handed a transaction that an
\* earlier returning relay call was handed, unless it was appended again in
\* between.
C14_DeliveredOnce ==
    [][(ev'.op = "sendBundleDone" /\ ev'.outcome = "returned")
          => ev'.tx \notin delivered]_vars

\* C15: no step changes the configuration, and getSize changes neither the
\* buffer, nor a transaction, nor a pending call.
C15_ConfigFixedSizePure ==
    [][/\ config' = config
       /\ (ev'.op = "getSize")
            => /\ ev'.ret = Len(transactions)
               /\ UNCHANGED << transactions, heap, awaitingBlockhash,
                               awaitingRelay >>]_vars

\* getSize ran on a non-empty buffer of enriched transactions with a
\* sendBundle suspended.
C15_SizeReadDuringSubmit ==
    /\ ev.op = "getSize"
    /\ ev.ret > 0
    /\ InFlight > 0
    /\ config \in {BundleConfig(m) : m \in 1..MaxCapacity}

====
